---- MODULE Spec2Model ----
(***************************************************************************)
(* A model of OSC_Mode (src/osc.py): the OSC bridge of pyprocgame.         *)
(*                                                                         *)
(* Representation.                                                         *)
(*  - A Python string is a sequence of one-character strings, so that      *)
(*    split, strip, startswith and int() are computed, not assumed.        *)
(*  - A number of a message payload is an exact fraction [num, den].       *)
(*  - A Python float given to convertToMask is m / 2^e with m a binary      *)
(*    numeral, and the sum of two floats is rounded as the machine rounds  *)
(*    it, to 53 significant bits.                                          *)
(*  - A Python int used as a bit mask is its binary numeral: the sequence  *)
(*    of its bits, most significant first, with no leading 0 (so 0 is the  *)
(*    empty sequence). Python ints are unbounded, and the mask of          *)
(*    convertToMask does not fit a 32-bit machine integer.                 *)
(*  - None is the empty tuple where the value is otherwise a tuple, 0      *)
(*    where it is a time, and the string "None" where it is a string.      *)
(***************************************************************************)
EXTENDS Integers, Sequences, FiniteSets, TLC

VARIABLES
    started,              \* the OSC server of mode_started is listening
    fake_pinproc,         \* config 'pinproc_class' names FakePinPROC
    closed_switches,      \* self.closed_switches
    clientIP,             \* self.clientIP
    clientTuple,          \* self.clientTuple
    OSC_client,           \* address self.OSC_client is connected to
    do_we_have_a_client,  \* self.do_we_have_a_client
    client_needs_sync,    \* self.client_needs_sync
    last_loop_time,       \* self.last_loop_time
    now,                  \* the reading of time.time()
    switches,             \* game.switches: name -> [state, last_changed]
    key_events,           \* game.desktop.key_events
    OSC_message,          \* self.OSC_message
    sent,                 \* messages the last call handed to OSC_client.send
    ops,                  \* device operations the last call performed
    err,                  \* exception the last call raised, or "None"
    last,                 \* the last call and its arguments, or the last
                          \* step of a call still in progress
    tick,                 \* where the game loop is in mode_tick,
                          \* mode_started or mode_stopped, and what the
                          \* call has sent so far
    recv,                 \* where the receive thread is in process_message
    number,               \* argument of the convertToMask call under study
    mask                  \* <<what that call returned>>, or << >> before it

vars == <<started, fake_pinproc, closed_switches, clientIP, clientTuple,
          OSC_client, do_we_have_a_client, client_needs_sync, last_loop_time,
          now, switches, key_events, OSC_message, sent, ops, err, last, tick,
          recv, number, mask>>

None == "None"

-----------------------------------------------------------------------------
(* Bounds of the model.                                                    *)

\* the clock time.time() is read in 2..MaxTime
MaxTime == 3
\* a message queues an event while game.desktop.key_events holds fewer than
\* MaxEvents events, and mode_started is called while the queue has room
\* for the closed switches within MaxEvents
MaxEvents == 1
\* the count of 'refresh' messages received in a row stops at MaxRefreshes
MaxRefreshes == 2
\* the binary duty cycles given to convertToMask are the p / 2^MaxDutyBits
MaxDutyBits == 7

-----------------------------------------------------------------------------
(* Numbers.                                                                *)

\* A number of a payload, as an exact fraction.
Frac(n, d) == [num |-> n, den |-> d]

\* Python int(x) of the fraction n/d (d > 0): truncation toward zero.
Trunc(n, d) == IF n >= 0 THEN n \div d ELSE -((-n) \div d)

\* Binary numerals: the bits of a natural number, most significant first,
\* with no leading 0.
Zeros(n) == [i \in 1..n |-> 0]

Front(b) == SubSeq(b, 1, Len(b) - 1)

RECURSIVE BinFromNat(_)
BinFromNat(n) == IF n = 0 THEN << >> ELSE Append(BinFromNat(n \div 2), n % 2)

RECURSIVE BinToNat(_)
BinToNat(b) == IF b = << >> THEN 0 ELSE 2 * BinToNat(Front(b)) + b[Len(b)]

\* b without its leading zeros
DropZeros(b) ==
    IF \A i \in 1..Len(b) : b[i] = 0 THEN << >>
    ELSE SubSeq(b, CHOOSE i \in 1..Len(b) :
                       b[i] = 1 /\ \A j \in 1..(i - 1) : b[j] = 0, Len(b))

\* The carry into place i of the sum of two bit strings a and b of one
\* length: some lower place j makes a carry (both bits 1) and every place
\* between passes it on (a bit 1).
CarryInto(a, b, i) ==
    \E j \in (i + 1)..Len(a) :
        /\ a[j] = 1 /\ b[j] = 1
        /\ \A k \in (i + 1)..(j - 1) : a[k] = 1 \/ b[k] = 1

\* a + b, exactly
BinAdd(a, b) ==
    LET n == 1 + (IF Len(a) > Len(b) THEN Len(a) ELSE Len(b))
        x == Zeros(n - Len(a)) \o a
        y == Zeros(n - Len(b)) \o b
    IN  DropZeros([i \in 1..n |->
                      (x[i] + y[i] + (IF CarryInto(x, y, i) THEN 1 ELSE 0)) % 2])

\* a < b
BinLess(a, b) ==
    \/ Len(a) < Len(b)
    \/ /\ Len(a) = Len(b)
       /\ \E i \in 1..Len(a) :
             a[i] < b[i] /\ \A j \in 1..(i - 1) : a[j] = b[j]

\* A Python float x >= 0 is the binary numeral m of x * 2^e, for a scale e
\* that leaves m an integer: x = m / 2^e, with at most Precision bits from
\* the first 1 of m to its last 1.
Float(m, e) == [m |-> m, e |-> e]

\* the bits of the significand of a Python float (IEEE 754 double)
Precision == 53

\* The float nearest to the numeral b (at any scale): b rounded to Precision
\* significant bits, a tie going to the even significand.
RoundToPrecision(b) ==
    IF Len(b) <= Precision THEN b
    ELSE LET top  == SubSeq(b, 1, Precision)
             rest == SubSeq(b, Precision + 1, Len(b))
             half == rest[1] = 1 /\ \A i \in 2..Len(rest) : rest[i] = 0
             up   == rest[1] = 1 /\ (~half \/ top[Precision] = 1)
         IN  (IF up THEN BinAdd(top, <<1>>) ELSE top) \o Zeros(Len(rest))

\* x + y of two floats at the same scale: the exact sum, rounded.
FloatAdd(x, y) == RoundToPrecision(BinAdd(x, y))

\* int(x) of the float b / 2^e
IntPart(b, e) == IF Len(b) <= e THEN 0 ELSE BinToNat(SubSeq(b, 1, Len(b) - e))

-----------------------------------------------------------------------------
(* convertToMask, src/osc.py lines 208-223.                                *)

\* the number of slots of the mask: range(32)
MaskBits == 32

\* schedule << 1
ShiftLeft(schedule) == IF schedule = << >> THEN << >> ELSE Append(schedule, 0)

\* schedule | 1
OrOne(schedule) ==
    IF schedule = << >> THEN <<1>>
    ELSE [schedule EXCEPT ![Len(schedule)] = 1]

\* The loop state before the first iteration (lines 213-215); count is a
\* float at the scale of number (every multiple of number is no finer).
MaskInit == [whole_num |-> 0, schedule |-> << >>, count |-> << >>]

\* A slip in the comparison of line 219: >= instead of >.
MaskStep_GE(st, d) ==
    LET count == FloatAdd(st.count, d.m)
    IN  IF IntPart(count, d.e) >= st.whole_num
        THEN [whole_num |-> st.whole_num + 1,
              schedule  |-> ShiftLeft(OrOne(st.schedule)),
              count     |-> count]
        ELSE [whole_num |-> st.whole_num,
              schedule  |-> ShiftLeft(st.schedule),
              count     |-> count]

\* One iteration of the loop (lines 218-222).
MaskStep(st, d) ==
    LET count == FloatAdd(st.count, d.m)
    IN  IF IntPart(count, d.e) > st.whole_num
        THEN [whole_num |-> st.whole_num + 1,
              schedule  |-> ShiftLeft(OrOne(st.schedule)),
              count     |-> count]
        ELSE [whole_num |-> st.whole_num,
              schedule  |-> ShiftLeft(st.schedule),
              count     |-> count]

\* k iterations of the loop from the loop state st, one after the other. The
\* run is cut in two, and the state between the halves is bound as a value
\* (mid), only to keep TLC's evaluation shallow.
RECURSIVE MaskIterate(_, _, _)
MaskIterate(st, d, k) ==
    IF k = 0 THEN st
    ELSE IF k = 1 THEN MaskStep(st, d)
    ELSE CHOOSE r \in {MaskIterate(mid, d, k - (k \div 2)) :
                          mid \in {MaskIterate(st, d, k \div 2)}} : TRUE

\* The loop state after k iterations (line 217).
MaskLoop(d, k) == MaskIterate(MaskInit, d, k)

\* convertToMask(number): the schedule returned at line 223.
convertToMask(d) == MaskLoop(d, MaskBits).schedule

HexDigits == <<"0", "1", "2", "3", "4", "5", "6", "7", "8", "9",
               "a", "b", "c", "d", "e", "f">>

\* The bits of a hexadecimal numeral, four to a digit.
HexBits(h) ==
    [i \in 1..(4 * Len(h)) |->
        LET v == (CHOOSE j \in 1..16 : HexDigits[j] = h[(i - 1) \div 4 + 1]) - 1
        IN  (v \div (2 ^ (3 - ((i - 1) % 4)))) % 2]

\* The float that float.hex() prints as 0x1.<h>p<-p>: the significand 1<h>
\* (13 hexadecimal digits h) at the scale 52 + p.
Double(h, p) == Float(DropZeros(HexBits(<<"1">> \o h)), 52 + p)

\* 0.1 is 0x1.999999999999ap-4, 0.3 is 0x1.3333333333333p-2 and 0.9 is
\* 0x1.ccccccccccccdp-1.
Tenth == Double(<<"9", "9", "9", "9", "9", "9", "9", "9", "9", "9", "9", "9",
                  "a">>, 4)
ThreeTenths == Double(<<"3", "3", "3", "3", "3", "3", "3", "3", "3", "3", "3",
                        "3", "3">>, 2)
NineTenths == Double(<<"c", "c", "c", "c", "c", "c", "c", "c", "c", "c", "c",
                       "c", "d">>, 1)

\* The duty cycles of the model: every p / 2^MaxDutyBits in [0,1], whose
\* multiples are floats, and three decimal fractions, whose multiples are not.
DutyCycles ==
    {Float(BinFromNat(p), MaxDutyBits) : p \in 0..(2^MaxDutyBits)}
        \cup {Tenth, ThreeTenths, NineTenths}

-----------------------------------------------------------------------------
(* Strings.                                                                *)

Digits == <<"0", "1", "2", "3", "4", "5", "6", "7", "8", "9">>

IsDigit(c) == \E i \in 1..10 : Digits[i] = c

DigitVal(c) == (CHOOSE i \in 1..10 : Digits[i] = c) - 1

\* The index of the first sep in s, or 0.
IndexOf(s, sep) ==
    IF \E i \in 1..Len(s) : s[i] = sep
    THEN CHOOSE i \in 1..Len(s) : s[i] = sep /\ \A j \in 1..(i - 1) : s[j] # sep
    ELSE 0

\* s.split(sep) for a one-character separator.
RECURSIVE Split(_, _)
Split(s, sep) ==
    LET i == IndexOf(s, sep)
    IN  IF i = 0 THEN <<s>>
        ELSE <<SubSeq(s, 1, i - 1)>> \o Split(SubSeq(s, i + 1, Len(s)), sep)

\* s.strip(ch): ch removed from both ends.
RECURSIVE Strip(_, _)
Strip(s, ch) ==
    IF s = << >> THEN s
    ELSE IF s[1] = ch THEN Strip(Tail(s), ch)
    ELSE IF s[Len(s)] = ch THEN Strip(SubSeq(s, 1, Len(s) - 1), ch)
    ELSE s

\* s.startswith(ch)
StartsWith(s, ch) == s # << >> /\ s[1] = ch

\* The vertical tab, chr(11).
VTab == ""

\* The characters int() and str.strip() take for white space: the blank,
\* the tabs, the line feed, the carriage return and the form feed.
Whitespace == {" ", "\t", "\n", "\r", VTab, "\f"}

\* s.lstrip(): white space removed from the front.
RECURSIVE SkipSpace(_)
SkipSpace(s) ==
    IF s # << >> /\ s[1] \in Whitespace THEN SkipSpace(Tail(s)) ELSE s

\* s.strip(): white space removed from both ends.
RECURSIVE StripSpace(_)
StripSpace(s) ==
    IF s = << >> THEN s
    ELSE IF s[1] \in Whitespace THEN StripSpace(Tail(s))
    ELSE IF s[Len(s)] \in Whitespace THEN StripSpace(SubSeq(s, 1, Len(s) - 1))
    ELSE s

\* The digits of the literal s, as int() of Python 2.7 reads it: the white
\* space around s is skipped, then the sign, then the white space between
\* the sign and the digits.
IntBody(s) ==
    LET t == StripSpace(s)
    IN  IF t # << >> /\ t[1] \in {"+", "-"} THEN SkipSpace(Tail(t)) ELSE t

\* Whether int(s) succeeds (Python 2.7, which pyOSC 0.3.5b and pyprocgame
\* run on): white space, an optional sign, white space, one or more digits,
\* white space.
IntParses(s) ==
    IntBody(s) # << >> /\ \A i \in 1..Len(IntBody(s)) : IsDigit(IntBody(s)[i])

RECURSIVE DigitsVal(_)
DigitsVal(s) ==
    IF s = << >> THEN 0
    ELSE 10 * DigitsVal(SubSeq(s, 1, Len(s) - 1)) + DigitVal(s[Len(s)])

\* int(s), where IntParses(s).
IntVal(s) ==
    IF StripSpace(s)[1] = "-" THEN -DigitsVal(IntBody(s))
    ELSE DigitsVal(IntBody(s))

-----------------------------------------------------------------------------
(* The machine the mode runs on: the registries game.switches, game.lamps, *)
(* game.leds and game.coils, and the names the messages of the model use.  *)

S1 == <<"s", "1">>
S2 == <<"s", "2">>
N12 == <<"1", "2">>
L1 == <<"l", "1">>
D1 == <<"d", "1">>
C1 == <<"c", "1">>
ZZ == <<"z", "z">>

\* game.switches, in the order its iteration yields them.
SwitchOrder == <<S1, S2>>
SwitchNames == {SwitchOrder[i] : i \in 1..Len(SwitchOrder)}

\* game.switches[name].number
SwitchNumber(name) == IF name = S1 THEN 33 ELSE 34

LampNames == {L1}
LedNames == {D1}
CoilNames == {C1}

\* pinproc.decode(machine_type, name) for a name no registry holds. The names
\* of the model have two characters, for which the decode is C's atoi: the
\* value of the leading digits, 0 when there are none.
RECURSIVE LeadingDigits(_)
LeadingDigits(s) ==
    IF s = << >> \/ ~IsDigit(s[1]) THEN << >>
    ELSE <<s[1]>> \o LeadingDigits(Tail(s))

decode(name) == DigitsVal(LeadingDigits(name))

\* pinproc.EventTypeSwitchClosedDebounced / EventTypeSwitchOpenDebounced
EventTypeSwitchClosedDebounced == "closed"
EventTypeSwitchOpenDebounced == "open"

Event(type, value) == [type |-> type, value |-> value]

\* The categories of the protocol.
SW == <<"s", "w">>
LAMP == <<"l", "a", "m", "p">>
LED_LOWER == <<"l", "e", "d">>
LED_UPPER == <<"L", "E", "D">>
COIL == <<"c", "o", "i", "l">>
REFRESH == <<"r", "e", "f", "r", "e", "s", "h">>
LED_LABEL == <<"l", "e", "d", "-", "l", "a", "b", "e", "l">>
FOO == <<"f", "o", "o">>

\* "/" + category [+ "/" + name]
Path1(cat) == <<"/">> \o cat
Path2(cat, name) == <<"/">> \o cat \o <<"/">> \o name

\* self.clientPort (the default of __init__)
clientPort == 8000

NoAddress == << >>

-----------------------------------------------------------------------------
(* Numbers of a payload.                                                   *)

\* x == n, x >= n for a payload fraction x and an integer n.
FracEq(x, n) == x.num = n * x.den
FracGe(x, n) == x.num >= n * x.den

\* What a call leaves behind: the events it appended to key_events, the
\* messages it sent, the device operations it made, the exception it raised.
Result(events, msgs, devops, exc) ==
    [events |-> events, sent |-> msgs, ops |-> devops, err |-> exc]

-----------------------------------------------------------------------------
(* Sending (lines 241-252). client_send_OSC_message builds the message in *)
(* the field self.OSC_message, which the receive thread (the 'led-label'   *)
(* reply) and the poll loop (the 'sw' updates) both use: each of its three *)
(* statements on the field is a step of its own.                           *)

\* A call client_send_OSC_message(category, name, data) made by 'by'. data is
\* the sequence of the arguments OSCMessage.append(data) adds: a number is
\* one argument, a list is added item by item.
client_send_OSC_message(category, name, data, by) ==
    [category |-> category, name |-> name, data |-> data, by |-> by]

\* self.OSC_message before the first send.
NoMessage == [category |-> << >>, name |-> << >>, data |-> << >>]

\* Line 249: OSC.OSCMessage("/" + str(category) + "/" + name)
OSCMessage(call) ==
    [category |-> call.category, name |-> call.name, data |-> << >>]

\* Line 250: self.OSC_message.append(data), on the message msg that the
\* field holds when the statement runs.
Appended(msg, call) == [msg EXCEPT !.data = @ \o call.data]

\* Line 252: self.OSC_client.send(self.OSC_message): what goes out is the
\* message msg the field holds then, to the address 'client' is connected to.
Outbound(msg, client, call) ==
    [category |-> msg.category, name |-> msg.name, data |-> msg.data,
     to |-> client, by |-> call.by]

\* The 0/1 of lines 235-237 and 288-290.
StateData(name) == IF switches[name].state THEN 1 ELSE 0

\* client_update_all_switches (lines 232-239): one call per switch.
client_update_all_switches ==
    [i \in 1..Len(SwitchOrder) |->
        client_send_OSC_message(SW, SwitchOrder[i],
                                <<StateData(SwitchOrder[i])>>,
                                "client_update_all_switches")]

-----------------------------------------------------------------------------
(* The category handlers (lines 144-206). Each is what one call does: the  *)
(* events it queues, the calls of client_send_OSC_message it makes, the    *)
(* device operations, the exception.                                       *)

\* A slip in lines 147-150: the registry is never asked.
switch_number_DecodeOnly(switchname) == decode(switchname)

\* Lines 147-150: the number of the registered switch, else the decode.
switch_number(switchname) ==
    IF switchname \in SwitchNames THEN SwitchNumber(switchname)
    ELSE decode(switchname)

\* process_switch (lines 144-160)
process_switch(switchname, data) ==
    LET number_ == switch_number(switchname)
    IN  IF data = << >> THEN Result(<< >>, << >>, << >>, "IndexError")
        ELSE IF FracEq(data[1], 1)
        THEN Result(<<Event(EventTypeSwitchClosedDebounced, number_)>>,
                    << >>, << >>, None)
        ELSE IF FracEq(data[1], 0)
        THEN Result(<<Event(EventTypeSwitchOpenDebounced, number_)>>,
                    << >>, << >>, None)
        ELSE Result(<< >>, << >>, << >>, None)

\* process_lamp (lines 162-175). convertToMask is defined without self, so
\* the call self.convertToMask(data[0]) of line 173 passes two arguments to a
\* function of one and raises TypeError before anything is scheduled.
process_lamp(lampname, data) ==
    IF lampname \in LampNames
    THEN IF data = << >> THEN Result(<< >>, << >>, << >>, "IndexError")
         ELSE IF FracGe(data[1], 1)
         THEN Result(<< >>, << >>,
                     <<[dev |-> "lamp", name |-> lampname, op |-> "enable"]>>, None)
         ELSE IF FracEq(data[1], 0)
         THEN Result(<< >>, << >>,
                     <<[dev |-> "lamp", name |-> lampname, op |-> "disable"]>>, None)
         ELSE Result(<< >>, << >>, << >>, "TypeError")
    ELSE Result(<< >>, << >>,
                <<[dev |-> "logger", name |-> lampname, op |-> "warning"]>>, None)

\* int(data[0]*255) of lines 186 and 194.
Brightness(x) == Trunc(x.num * 255, x.den)

\* process_LED (lines 177-201)
process_LED(LED, data) ==
    IF data = << >> THEN Result(<< >>, << >>, << >>, "IndexError")
    ELSE
    LET value == Brightness(data[1])
    IN  IF StartsWith(LED, "+")
        THEN LET LEDpart == Split(Strip(LED, "+"), "-")
             IN  IF ~IntParses(LEDpart[1])
                 THEN Result(<< >>, << >>, << >>, "ValueError")
                 ELSE IF Len(LEDpart) < 2
                 THEN Result(<< >>, << >>, << >>, "IndexError")
                 ELSE IF ~IntParses(LEDpart[2])
                 THEN Result(<< >>, << >>, << >>, "ValueError")
                 ELSE Result(<< >>,
                        <<client_send_OSC_message(LED_LABEL, LED, <<value>>,
                                                  "process_LED")>>,
                        <<[dev |-> "proc", op |-> "PRLED_color",
                           board |-> IntVal(LEDpart[1]),
                           output |-> IntVal(LEDpart[2]),
                           color |-> value]>>,
                        None)
        ELSE IF LED \in LedNames
        THEN Result(<< >>,
                    <<client_send_OSC_message(LED_LABEL, LED, <<value>>,
                                              "process_LED")>>,
                    <<[dev |-> "led", name |-> LED, op |-> "color",
                       color |-> <<value>>]>>,
                    None)
        ELSE Result(<< >>, << >>, << >>, "KeyError")

\* A slip in lines 205-206: the coil is looked up without the test.
process_coil_Unguarded(coilname, data) ==
    IF coilname \in CoilNames
    THEN Result(<< >>, << >>,
                <<[dev |-> "coil", name |-> coilname, op |-> "pulse"]>>, None)
    ELSE Result(<< >>, << >>, << >>, "KeyError")

\* process_coil (lines 203-206)
process_coil(coilname, data) ==
    IF coilname \in CoilNames
    THEN Result(<< >>, << >>,
                <<[dev |-> "coil", name |-> coilname, op |-> "pulse"]>>, None)
    ELSE Result(<< >>, << >>, << >>, None)

-----------------------------------------------------------------------------
(* The session (lines 125-130 and 254-258).                                *)

Session == [clientIP |-> clientIP, clientTuple |-> clientTuple,
            OSC_client |-> OSC_client,
            do_we_have_a_client |-> do_we_have_a_client]

\* A slip in line 258: the flag is not set.
setup_OSC_client_NoFlag(sess, address) == [sess EXCEPT !.OSC_client = address]

\* setup_OSC_client (lines 254-258)
setup_OSC_client(sess, address) ==
    [sess EXCEPT !.OSC_client = address, !.do_we_have_a_client = TRUE]

\* A slip in line 126: the connection is set up on every message, to the
\* host that sent it.
Bind_Always(sess, client_address) ==
    LET ip == client_address[1]
        tuple == <<ip, clientPort>>
    IN  setup_OSC_client([sess EXCEPT !.clientIP = ip, !.clientTuple = tuple],
                         tuple)

\* Lines 126-130 of process_message: set up a connection to the first client.
Bind(sess, client_address) ==
    IF ~sess.do_we_have_a_client
    THEN LET ip == IF sess.clientIP = None THEN client_address[1]
                   ELSE sess.clientIP
             tuple == <<ip, clientPort>>
         IN  setup_OSC_client([sess EXCEPT !.clientIP = ip, !.clientTuple = tuple],
                              tuple)
    ELSE sess

-----------------------------------------------------------------------------
(* process_message (lines 112-142).                                        *)

\* What the 'refresh' branch (lines 119-121) makes of client_needs_sync.
MarkForSync(flag) == TRUE

\* Lines 132-142: the handler of the category, none for an unknown one.
Handle(cat, name, data) ==
    IF cat = SW THEN process_switch(name, data)
    ELSE IF cat = LAMP THEN process_lamp(name, data)
    ELSE IF cat = LED_LOWER \/ cat = LED_UPPER THEN process_LED(name, data)
    ELSE IF cat = COIL THEN process_coil(name, data)
    ELSE Result(<< >>, << >>, << >>, None)

\* A slip in lines 119-130: the session is set up before the 'refresh' test.
Dispatch_RefreshBinds(addr, data, client_address) ==
    LET parts == Split(addr, "/")
        quiet == Result(<< >>, << >>, << >>, None)
        fail  == Result(<< >>, << >>, << >>, "IndexError")
    IN  IF Len(parts) < 2
        THEN [sync |-> client_needs_sync, sess |-> Session, res |-> fail]
        ELSE IF parts[2] = REFRESH
        THEN [sync |-> MarkForSync(client_needs_sync),
              sess |-> Bind(Session, client_address), res |-> quiet]
        ELSE IF Len(parts) < 3
        THEN [sync |-> client_needs_sync, sess |-> Session, res |-> fail]
        ELSE LET sess == Bind(Session, client_address)
             IN  [sync |-> client_needs_sync, sess |-> sess,
                  res |-> Handle(parts[2], parts[3], data)]

\* The whole call: the new flag, the new session and the handler's result.
Dispatch(addr, data, client_address) ==
    LET parts == Split(addr, "/")
        quiet == Result(<< >>, << >>, << >>, None)
        fail  == Result(<< >>, << >>, << >>, "IndexError")
    IN  IF Len(parts) < 2
        THEN [sync |-> client_needs_sync, sess |-> Session, res |-> fail]
        ELSE IF parts[2] = REFRESH
        THEN [sync |-> MarkForSync(client_needs_sync), sess |-> Session,
              res |-> quiet]
        ELSE IF Len(parts) < 3
        THEN [sync |-> client_needs_sync, sess |-> Session, res |-> fail]
        ELSE LET sess == Bind(Session, client_address)
             IN  [sync |-> client_needs_sync, sess |-> sess,
                  res |-> Handle(parts[2], parts[3], data)]

IsRefresh(addr) == Len(Split(addr, "/")) >= 2 /\ Split(addr, "/")[2] = REFRESH

\* How many 'refresh' messages in a row have been received, with no other
\* message and no test of the flag by mode_tick since, when 'call' was over.
RefreshRun(call) == call.run

\* The receive thread is between two messages.
RecvIdle == [pc |-> "idle", phase |-> "new", todo |-> << >>, ops |-> << >>,
             call |-> [op |-> "none"]]

\* The receive thread is over: serve_forever (line 97) was left by an
\* exception.
RecvEnded == [RecvIdle EXCEPT !.pc = "ended"]

\* Lines 92-98: the server is open and its thread is in serve_forever, with
\* process_message as its handler.
Serving == started /\ recv.pc # "ended"

\* Where the receive thread is after process_message has returned or
\* raised exc. process_message catches nothing (lines 112-142), so an
\* exception goes to the caller, the server of line 90, whose class is not
\* part of the source: the server takes the next message, or the exception
\* leaves serve_forever and ends the thread.
AfterHandler(exc) == IF exc = None THEN {RecvIdle} ELSE {RecvIdle, RecvEnded}

\* Lines 112-142 up to the first statement of client_send_OSC_message on
\* self.OSC_message: the session, the flag, the events and the device
\* operations. A message whose handler sends nothing is over with that; the
\* reply of process_LED (line 201) goes on in ReplyNew, ReplyAppend, ReplySend.
process_message(addr, data, client_address) ==
    /\ Serving
    /\ recv = RecvIdle
    /\ \E d \in {Dispatch(addr, data, client_address)},
          call \in {[op |-> "process_message", addr |-> addr, data |-> data,
                     client_address |-> client_address,
                     run |-> IF ~IsRefresh(addr) THEN 0
                             ELSE IF RefreshRun(last) < MaxRefreshes
                             THEN RefreshRun(last) + 1
                             ELSE MaxRefreshes]} :
           /\ d.res.events # << >> => Len(key_events) < MaxEvents
           /\ client_needs_sync' = d.sync
           /\ clientIP' = d.sess.clientIP
           /\ clientTuple' = d.sess.clientTuple
           /\ OSC_client' = d.sess.OSC_client
           /\ do_we_have_a_client' = d.sess.do_we_have_a_client
           /\ key_events' = key_events \o d.res.events
           /\ IF d.res.sent = << >>
              THEN /\ recv' \in AfterHandler(d.res.err)
                   /\ sent' = << >>
                   /\ ops' = d.res.ops
                   /\ err' = d.res.err
                   /\ last' = call
              ELSE /\ recv' = [pc |-> "reply", phase |-> "new",
                               todo |-> d.res.sent, ops |-> d.res.ops,
                               call |-> call]
                   /\ sent' = << >>
                   /\ ops' = << >>
                   /\ err' = None
                   /\ last' = [op |-> "process_message_step",
                               did |-> "dispatch", run |-> call.run]
    /\ UNCHANGED <<started, fake_pinproc, closed_switches, last_loop_time, now,
                   switches, OSC_message, tick, number, mask>>

\* What a step inside a call leaves in sent, ops, err and last.
Step(op, did) ==
    /\ sent' = << >>
    /\ ops' = << >>
    /\ err' = None
    /\ last' = [op |-> op, did |-> did, run |-> RefreshRun(last)]

\* Line 249, for the reply of process_LED.
ReplyNew ==
    /\ recv.pc = "reply"
    /\ recv.phase = "new"
    /\ OSC_message' = OSCMessage(recv.todo[1])
    /\ recv' = [recv EXCEPT !.phase = "append"]
    /\ Step("process_message_step", "new")
    /\ UNCHANGED <<started, fake_pinproc, closed_switches, clientIP, clientTuple,
                   OSC_client, do_we_have_a_client, client_needs_sync,
                   last_loop_time, now, switches, key_events, tick, number,
                   mask>>

\* Line 250, for the reply of process_LED.
ReplyAppend ==
    /\ recv.pc = "reply"
    /\ recv.phase = "append"
    /\ OSC_message' = Appended(OSC_message, recv.todo[1])
    /\ recv' = [recv EXCEPT !.phase = "send"]
    /\ Step("process_message_step", "append")
    /\ UNCHANGED <<started, fake_pinproc, closed_switches, clientIP, clientTuple,
                   OSC_client, do_we_have_a_client, client_needs_sync,
                   last_loop_time, now, switches, key_events, tick, number,
                   mask>>

\* Line 252, for the reply of process_LED; process_LED and process_message
\* return, and the call is over.
ReplySend ==
    /\ recv.pc = "reply"
    /\ recv.phase = "send"
    /\ recv' = RecvIdle
    /\ sent' = <<Outbound(OSC_message, OSC_client, recv.todo[1])>>
    /\ ops' = recv.ops
    /\ err' = None
    /\ last' = recv.call
    /\ UNCHANGED <<started, fake_pinproc, closed_switches, clientIP, clientTuple,
                   OSC_client, do_we_have_a_client, client_needs_sync,
                   last_loop_time, now, switches, key_events, OSC_message, tick,
                   number, mask>>

-----------------------------------------------------------------------------
(* mode_tick (lines 279-293) and client_update_all (lines 225-230), as the *)
(* game loop runs them while the receive thread of line 97 runs            *)
(* process_message: one step for each read or write of a field the other   *)
(* thread also writes.                                                     *)

\* The game loop is in none of the mode's methods.
Idle == [pc |-> "idle", phase |-> "new", todo |-> << >>, sent |-> << >>,
         pass |-> FALSE]

\* Line 286-287: the switch changed since the last loop.
ChangedSince(name, t) ==
    switches[name].last_changed # 0 /\ switches[name].last_changed > t

\* Lines 285-291: one call of client_send_OSC_message per switch changed
\* since last_loop_time.
ChangeUpdates ==
    LET changed == SelectSeq(SwitchOrder,
                             LAMBDA n : ChangedSince(n, last_loop_time))
    IN  [i \in 1..Len(changed) |->
            client_send_OSC_message(SW, changed[i],
                                    <<StateData(changed[i])>>, "mode_tick")]

\* Lines 281-282: the tests of do_we_have_a_client and client_needs_sync.
\* Without a client the call is over; with the flag it enters
\* client_update_all; else it enters the loop of line 285.
TickBegin ==
    /\ started
    /\ tick = Idle
    /\ IF ~do_we_have_a_client
       THEN /\ tick' = Idle
            /\ sent' = << >>
            /\ ops' = << >>
            /\ err' = None
            /\ last' = [op |-> "mode_tick", pass |-> FALSE,
                        run |-> RefreshRun(last)]
       ELSE /\ tick' = IF client_needs_sync
                       THEN [pc |-> "sync", phase |-> "new",
                             todo |-> client_update_all_switches,
                             sent |-> << >>, pass |-> TRUE]
                       ELSE [pc |-> "changes", phase |-> "new",
                             todo |-> ChangeUpdates,
                             sent |-> << >>, pass |-> FALSE]
            /\ sent' = << >>
            /\ ops' = << >>
            /\ err' = None
            /\ last' = [op |-> "mode_tick_step", did |-> "test", run |-> 0]
    /\ UNCHANGED <<started, fake_pinproc, closed_switches, clientIP, clientTuple,
                   OSC_client, do_we_have_a_client, client_needs_sync,
                   last_loop_time, now, switches, key_events, OSC_message, recv,
                   number, mask>>

\* Line 249, for the next 'sw' message of the tick.
TickNew ==
    /\ tick.pc \in {"sync", "changes"}
    /\ tick.todo # << >>
    /\ tick.phase = "new"
    /\ OSC_message' = OSCMessage(tick.todo[1])
    /\ tick' = [tick EXCEPT !.phase = "append"]
    /\ Step("mode_tick_step", "new")
    /\ UNCHANGED <<started, fake_pinproc, closed_switches, clientIP, clientTuple,
                   OSC_client, do_we_have_a_client, client_needs_sync,
                   last_loop_time, now, switches, key_events, recv, number,
                   mask>>

\* Line 250, for the next 'sw' message of the tick.
TickAppend ==
    /\ tick.pc \in {"sync", "changes"}
    /\ tick.todo # << >>
    /\ tick.phase = "append"
    /\ OSC_message' = Appended(OSC_message, tick.todo[1])
    /\ tick' = [tick EXCEPT !.phase = "send"]
    /\ Step("mode_tick_step", "append")
    /\ UNCHANGED <<started, fake_pinproc, closed_switches, clientIP, clientTuple,
                   OSC_client, do_we_have_a_client, client_needs_sync,
                   last_loop_time, now, switches, key_events, recv, number,
                   mask>>

\* Line 252, for the next 'sw' message of the tick.
TickSend ==
    /\ tick.pc \in {"sync", "changes"}
    /\ tick.todo # << >>
    /\ tick.phase = "send"
    /\ tick' = [tick EXCEPT
                   !.phase = "new",
                   !.todo = Tail(@),
                   !.sent = Append(@, Outbound(OSC_message, OSC_client,
                                               tick.todo[1]))]
    /\ Step("mode_tick_step", "send")
    /\ UNCHANGED <<started, fake_pinproc, closed_switches, clientIP, clientTuple,
                   OSC_client, do_we_have_a_client, client_needs_sync,
                   last_loop_time, now, switches, key_events, OSC_message, recv,
                   number, mask>>

\* Line 230: client_update_all_switches is over, the flag is reset, and the
\* call goes on to the loop of line 285.
TickClear ==
    /\ tick.pc = "sync"
    /\ tick.todo = << >>
    /\ client_needs_sync' = FALSE
    /\ tick' = [tick EXCEPT !.pc = "changes", !.todo = ChangeUpdates]
    /\ Step("mode_tick_step", "clear")
    /\ UNCHANGED <<started, fake_pinproc, closed_switches, clientIP, clientTuple,
                   OSC_client, do_we_have_a_client, last_loop_time, now,
                   switches, key_events, OSC_message, recv, number, mask>>

\* Line 293: last_loop_time = time.time(), and the call is over.
TickTime ==
    /\ tick.pc = "changes"
    /\ tick.todo = << >>
    /\ last_loop_time' = now
    /\ tick' = Idle
    /\ sent' = tick.sent
    /\ ops' = << >>
    /\ err' = None
    /\ last' = [op |-> "mode_tick", pass |-> tick.pass,
                run |-> RefreshRun(last)]
    /\ UNCHANGED <<started, fake_pinproc, closed_switches, clientIP, clientTuple,
                   OSC_client, do_we_have_a_client, client_needs_sync, now,
                   switches, key_events, OSC_message, recv, number, mask>>

\* mode_tick: a step of the call.
mode_tick ==
    TickBegin \/ TickNew \/ TickAppend \/ TickSend \/ TickClear \/ TickTime

-----------------------------------------------------------------------------
(* mode_started (lines 87-99), set_initial_closed_switches (260-277),      *)
(* mode_stopped and OSC_shutdown (101-110).                                *)

\* Lines 265-273: one closed event per name of closed_switches.
InitialClosedEvents ==
    [i \in 1..Len(closed_switches) |->
        Event(EventTypeSwitchClosedDebounced, switch_number(closed_switches[i]))]

\* Lines 89-98: the server is set up and its thread started. From here on
\* process_message runs, while the game loop has yet to reach line 99.
\* OSC.OSCServer is a SocketServer.UDPServer, which binds its address when
\* it is made: while the server of an earlier mode_started is open, line 90
\* raises socket.error (the address is in use) and the call is over, with
\* the server, its thread and every field as they were.
mode_started ==
    /\ tick = Idle
    /\ IF started
       THEN /\ sent' = << >>
            /\ ops' = << >>
            /\ err' = "socket.error"
            /\ last' = [op |-> "mode_started", run |-> RefreshRun(last)]
            /\ UNCHANGED <<started, tick>>
       ELSE /\ fake_pinproc
                  => Len(key_events) + Len(closed_switches) <= MaxEvents
            /\ started' = TRUE
            /\ tick' = [Idle EXCEPT !.pc = "closed"]
            /\ Step("mode_started_step", "serve")
    /\ UNCHANGED <<fake_pinproc, closed_switches, clientIP, clientTuple,
                   OSC_client, do_we_have_a_client, client_needs_sync,
                   last_loop_time, now, switches, key_events, OSC_message, recv,
                   number, mask>>

\* Line 99 and lines 260-277: with FakePinPROC the closed switches are
\* queued and then the flag is set; mode_started is over.
set_initial_closed_switches ==
    /\ tick.pc = "closed"
    /\ IF fake_pinproc
       THEN /\ key_events' = key_events \o InitialClosedEvents
            /\ client_needs_sync' = TRUE
       ELSE UNCHANGED <<key_events, client_needs_sync>>
    /\ tick' = Idle
    /\ sent' = << >>
    /\ ops' = << >>
    /\ err' = None
    /\ last' = [op |-> "mode_started", run |-> RefreshRun(last)]
    /\ UNCHANGED <<started, fake_pinproc, closed_switches, clientIP, clientTuple,
                   OSC_client, do_we_have_a_client, last_loop_time, now,
                   switches, OSC_message, recv, number, mask>>

\* mode_stopped (lines 101-102) and OSC_shutdown up to line 107: the server
\* is closed, so that it takes no further message; the message the receive
\* thread has in hand goes on. The session and the flag stay as they are.
mode_stopped ==
    /\ started
    /\ tick = Idle
    /\ started' = FALSE
    /\ tick' = [Idle EXCEPT !.pc = "join"]
    /\ Step("mode_stopped_step", "close")
    /\ UNCHANGED <<fake_pinproc, closed_switches, clientIP, clientTuple,
                   OSC_client, do_we_have_a_client, client_needs_sync,
                   last_loop_time, now, switches, key_events, OSC_message,
                   recv, number, mask>>

\* OSC_shutdown, lines 109-110: server_thread.join() returns once the
\* receive thread is over, which it is when the message in hand is dealt
\* with; mode_stopped returns.
OSC_shutdown ==
    /\ tick.pc = "join"
    /\ recv \in {RecvIdle, RecvEnded}
    /\ tick' = Idle
    /\ recv' = RecvIdle
    /\ sent' = << >>
    /\ ops' = << >>
    /\ err' = None
    /\ last' = [op |-> "mode_stopped", run |-> RefreshRun(last)]
    /\ UNCHANGED <<started, fake_pinproc, closed_switches, clientIP,
                   clientTuple, OSC_client, do_we_have_a_client,
                   client_needs_sync, last_loop_time, now, switches,
                   key_events, OSC_message, number, mask>>

-----------------------------------------------------------------------------
(* The surroundings: the clock, the game loop that sets the switches and   *)
(* empties desktop.key_events.                                             *)

Quiet ==
    /\ sent' = << >>
    /\ ops' = << >>
    /\ err' = None
    /\ last' = [op |-> "game", run |-> RefreshRun(last)]

\* time.time() moves on.
AdvanceClock ==
    /\ now < MaxTime
    /\ now' = now + 1
    /\ Quiet
    /\ UNCHANGED <<started, fake_pinproc, closed_switches, clientIP, clientTuple,
                   OSC_client, do_we_have_a_client, client_needs_sync,
                   last_loop_time, switches, key_events, OSC_message, recv,
                   tick, number, mask>>

\* The game loop sets a switch to its other state: switch.state, and
\* switch.last_changed = time.time(). The game loop is also what calls the
\* mode's methods, so no switch changes while one of them is in progress.
SwitchChange(name) ==
    /\ tick = Idle
    /\ switches' = [switches EXCEPT ![name] =
                       [state |-> ~switches[name].state, last_changed |-> now]]
    /\ sent' = << >>
    /\ ops' = << >>
    /\ err' = None
    /\ last' = [op |-> "SwitchChange", name |-> name, run |-> RefreshRun(last)]
    /\ UNCHANGED <<started, fake_pinproc, closed_switches, clientIP, clientTuple,
                   OSC_client, do_we_have_a_client, client_needs_sync,
                   last_loop_time, now, key_events, OSC_message, recv, tick,
                   number, mask>>

\* The game loop takes the events of desktop.key_events, between two calls
\* of the mode's methods.
DrainKeyEvents ==
    /\ tick = Idle
    /\ key_events # << >>
    /\ key_events' = << >>
    /\ Quiet
    /\ UNCHANGED <<started, fake_pinproc, closed_switches, clientIP, clientTuple,
                   OSC_client, do_we_have_a_client, client_needs_sync,
                   last_loop_time, now, switches, OSC_message, recv,
                   tick, number, mask>>

-----------------------------------------------------------------------------
(* The inputs of the model.                                                *)

HostA == "hostA"
HostB == "hostB"
HostC == "hostC"

\* client_address of an incoming message: (host, source port)
Senders == {<<HostA, 50001>>, <<HostB, 50002>>}

RawLED == <<"+", "8", "-", "6", "0">>
RawLEDSpaced == <<"+", VTab, "8", "-", "+", " ", "6", "0", " ">>
RawLEDNoOutput == <<"+", "8">>
RawLEDNoNumber == <<"+", "x", "-", "1">>

\* The paths of the messages that are not answered: every category, with
\* and without a target, and the LED targets that fail.
Paths == {Path1(REFRESH),
          Path2(SW, S1), Path2(SW, N12), Path1(SW),
          Path2(LAMP, L1), Path2(LAMP, ZZ),
          Path2(LED_LOWER, ZZ), Path2(LED_LOWER, RawLEDNoOutput),
          Path2(LED_LOWER, RawLEDNoNumber),
          Path2(COIL, C1), Path2(COIL, ZZ),
          Path2(FOO, ZZ), Path1(FOO)}

\* The paths of the messages for an LED that are answered: a registered
\* name, and a board and an output, without and with white space around the
\* numbers and after a sign.
LEDPaths == {Path2(LED_LOWER, D1), Path2(LED_UPPER, RawLED),
             Path2(LED_LOWER, RawLEDSpaced)}

\* data: no argument, or one of 0, 1/2, 1, 3/2
Payloads == {<< >>, <<Frac(0, 1)>>, <<Frac(1, 2)>>, <<Frac(1, 1)>>,
             <<Frac(3, 2)>>}

\* data of a message for an LED: off, or full on
LEDPayloads == {<<Frac(0, 1)>>, <<Frac(1, 1)>>}

-----------------------------------------------------------------------------
(* The specification of the mode.                                          *)

Init ==
    /\ started = FALSE
    /\ fake_pinproc \in BOOLEAN
    /\ closed_switches = <<N12>>
    /\ clientIP \in {None, HostC}
    /\ clientTuple = NoAddress
    /\ OSC_client = NoAddress
    /\ do_we_have_a_client = FALSE
    /\ client_needs_sync = FALSE
    /\ last_loop_time = 1
    /\ now = 2
    /\ switches = [n \in SwitchNames |-> [state |-> FALSE, last_changed |-> 0]]
    /\ key_events = << >>
    /\ OSC_message = NoMessage
    /\ sent = << >>
    /\ ops = << >>
    /\ err = None
    /\ last = [op |-> "__init__", run |-> 0]
    /\ tick = Idle
    /\ recv = RecvIdle
    /\ number = Float(<< >>, 0)
    /\ mask = << >>

\* The session and the synchronizer: the messages that bind or ask for a
\* refresh, from two senders, while the game loop starts and stops the mode
\* and is anywhere in mode_tick, against every course of the clock and the
\* switches.
SyncPaths == {Path1(REFRESH), Path2(COIL, C1)}
SyncPayloads == {<<Frac(1, 1)>>}

Next ==
    \/ mode_started
    \/ set_initial_closed_switches
    \/ mode_stopped
    \/ OSC_shutdown
    \/ \E addr \in SyncPaths, data \in SyncPayloads, client_address \in Senders :
          process_message(addr, data, client_address)
    \/ TickBegin
    \/ TickNew
    \/ TickAppend
    \/ TickSend
    \/ TickClear
    \/ TickTime
    \/ AdvanceClock
    \/ \E name \in SwitchNames : SwitchChange(name)
    \/ DrainKeyEvents

Spec == Init /\ [][Next]_vars

\* The two users of self.OSC_message: the receive thread answers a message
\* for an LED while the game loop is anywhere in mode_tick, which sends the
\* full pass a 'refresh' or the start asked for and the update of a switch
\* that changed.
ReplyPaths == {Path1(REFRESH), Path2(LED_LOWER, D1)}

NextReply ==
    \/ mode_started
    \/ set_initial_closed_switches
    \/ \E addr \in ReplyPaths, data \in SyncPayloads, client_address \in Senders :
          process_message(addr, data, client_address)
    \/ ReplyNew
    \/ ReplyAppend
    \/ ReplySend
    \/ TickBegin
    \/ TickNew
    \/ TickAppend
    \/ TickSend
    \/ TickClear
    \/ TickTime
    \/ SwitchChange(S1)

SpecReply == Init /\ [][NextReply]_vars

\* The LED messages of both forms, answered while the game loop is anywhere
\* in a mode_tick that sends the full pass the start asked for, or closes
\* the server and waits for the receive thread.
NextLED ==
    \/ mode_started
    \/ set_initial_closed_switches
    \/ mode_stopped
    \/ OSC_shutdown
    \/ \E addr \in LEDPaths, data \in LEDPayloads :
          process_message(addr, data, <<HostA, 50001>>)
    \/ ReplyNew
    \/ ReplyAppend
    \/ ReplySend
    \/ TickBegin
    \/ TickNew
    \/ TickAppend
    \/ TickSend
    \/ TickClear
    \/ TickTime

SpecLED == Init /\ [][NextLED]_vars

\* The receive loop: every path of Paths with every payload, from one
\* sender, with the game loop starting and stopping the mode and taking the
\* events.
NextReceive ==
    \/ mode_started
    \/ set_initial_closed_switches
    \/ mode_stopped
    \/ OSC_shutdown
    \/ \E addr \in Paths, data \in Payloads :
          process_message(addr, data, <<HostA, 50001>>)
    \/ DrainKeyEvents

SpecReceive == Init /\ [][NextReceive]_vars

\* The two threads under the schedule of the game: the mode is started once,
\* mode_tick is called over and over, a call once begun runs to its end, and
\* time passes.
NextThreads ==
    \/ ~started /\ mode_started
    \/ set_initial_closed_switches
    \/ \E addr \in SyncPaths, client_address \in Senders :
          process_message(addr, <<Frac(1, 1)>>, client_address)
    \/ TickBegin
    \/ TickNew
    \/ TickAppend
    \/ TickSend
    \/ TickClear
    \/ TickTime
    \/ AdvanceClock
    \/ \E name \in SwitchNames : SwitchChange(name)

SpecThreads ==
    /\ Init
    /\ [][NextThreads]_vars
    /\ WF_vars(mode_tick)
    /\ WF_vars(set_initial_closed_switches)
    /\ WF_vars(AdvanceClock)

-----------------------------------------------------------------------------
(* The brightness encoder on its own: convertToMask applied to a duty      *)
(* cycle.                                                                  *)

InitMask ==
    /\ Init
    /\ fake_pinproc = FALSE
    /\ clientIP = None

ApplyConvertToMask(d) ==
    /\ mask = << >>
    /\ number' = d
    /\ mask' = <<convertToMask(d)>>
    /\ last' = [op |-> "convertToMask", run |-> 0]
    /\ UNCHANGED <<started, fake_pinproc, closed_switches, clientIP, clientTuple,
                   OSC_client, do_we_have_a_client, client_needs_sync,
                   last_loop_time, now, switches, key_events, OSC_message, sent,
                   ops, err, tick, recv>>

NextMask == \E d \in DutyCycles : ApplyConvertToMask(d)

SpecMask == InitMask /\ [][NextMask]_vars

-----------------------------------------------------------------------------
(* What the properties below read off a call.                              *)

IsCall(call, op) == call.op = op

\* The call was process_message with a path "/<category>/<target>...".
IsMessageTo(call) ==
    IsCall(call, "process_message") /\ Len(Split(call.addr, "/")) >= 3

CategoryOf(call) == Split(call.addr, "/")[2]
TargetOf(call) == Split(call.addr, "/")[3]

\* The messages of msgs that are about the switch 'name'.
About(msgs, name) == SelectSeq(msgs, LAMBDA m : m.name = name)

\* The messages of msgs sent by the caller 'by'.
SentBy(msgs, by) == SelectSeq(msgs, LAMBDA m : m.by = by)

\* m is a 'sw' message to the connected client 'client' that carries the
\* state of the switch 'name' in the machine state sw.
IsStateOf(m, name, sw, client) ==
    /\ m.category = SW
    /\ m.name = name
    /\ m.data = <<IF sw[name].state THEN 1 ELSE 0>>
    /\ m.to = client

\* msgs is one pass over all the switches: one message per switch.
IsFullPass(msgs, sw, client) ==
    /\ Len(msgs) = Len(SwitchOrder)
    /\ \A n \in SwitchNames :
          /\ Len(About(msgs, n)) = 1
          /\ IsStateOf(About(msgs, n)[1], n, sw, client)

IsSwitchMessage(call) ==
    IsMessageTo(call) /\ CategoryOf(call) = SW /\ call.data # << >>

IsLEDMessage(call) ==
    /\ IsMessageTo(call)
    /\ CategoryOf(call) \in {LED_LOWER, LED_UPPER}
    /\ call.data # << >>

\* The one 'led-label' reply for target T with brightness v, to the client.
IsLEDReply(msgs, T, v, client) ==
    /\ Len(msgs) = 1
    /\ msgs[1].category = LED_LABEL
    /\ msgs[1].name = T
    /\ msgs[1].data = <<v>>
    /\ msgs[1].to = client
    /\ client # NoAddress

\* The step was the test of lines 281-282 by a mode_tick that found a client.
IsTickTest(call) == call.op = "mode_tick_step" /\ call.did = "test"

-----------------------------------------------------------------------------
(* The session and the synchronizer (specification Spec).                  *)

\* C1: whenever the session is unbound and process_message receives a message
\* "/<category>/<target>" whose category is not 'refresh', after that
\* dispatch the session is bound and client_needs_sync is true.
C1_BindMarksResync ==
    [][(IsMessageTo(last') /\ ~IsRefresh(last'.addr) /\ ~do_we_have_a_client)
       => (do_we_have_a_client' /\ client_needs_sync')]_vars

\* C2: a mode_tick that finds the session bound and client_needs_sync true
\* sends exactly one 'sw' message per known switch, carrying its current
\* state, and no other message, and its pass ends with client_needs_sync
\* set to false.
C2_ResyncTickSendsOnePass ==
    [][/\ (IsCall(last', "mode_tick") /\ last'.pass)
          => IsFullPass(sent', switches, OSC_client)
       /\ (tick.pc = "sync" /\ tick'.pc # "sync") => ~client_needs_sync']_vars

\* C4: every mode_tick call leaves last_loop_time at the current time,
\* bound or not.
C4_EveryTickRecordsTime ==
    IsCall(last, "mode_tick") => last_loop_time = now

\* C6: 'refresh' received two or more times in a row leaves client_needs_sync
\* true, and the mode_tick that comes next on a bound session makes the pass
\* over all the switches.
C6_RefreshTwiceOneSync ==
    [][/\ (IsCall(last', "process_message") /\ RefreshRun(last') >= 2)
          => client_needs_sync'
       /\ (IsTickTest(last') /\ RefreshRun(last) >= 2)
          => (tick'.pass /\ tick'.todo = client_update_all_switches)]_vars

-----------------------------------------------------------------------------
(* The two users of self.OSC_message (specification SpecReply).            *)

\* C3: a mode_tick that finds the session bound and client_needs_sync false
\* sends exactly one 'sw' update, carrying the current state, for each switch
\* whose last change is strictly later than last_loop_time, nothing for a
\* switch that never changed or whose last change is not later, and sets
\* last_loop_time to the current time.
C3_ChangeDetection ==
    [][(IsCall(last', "mode_tick") /\ do_we_have_a_client /\ ~last'.pass)
       => /\ \A n \in SwitchNames :
                IF switches[n].last_changed # 0
                   /\ switches[n].last_changed > last_loop_time
                THEN /\ Len(About(sent', n)) = 1
                     /\ IsStateOf(About(sent', n)[1], n, switches, OSC_client)
                ELSE About(sent', n) = << >>
          /\ \A i \in 1..Len(sent') : sent'[i].name \in SwitchNames
          /\ last_loop_time' = now]_vars

\* C5: no message is sent while the session is unbound: whatever a call has
\* sent, mode_tick or process_LED, it sent with do_we_have_a_client true, to
\* the connected client.
C5_NoSendWhileUnbound ==
    \A msgs \in {sent, tick.sent} :
        \A i \in 1..Len(msgs) :
            /\ do_we_have_a_client
            /\ msgs[i].to # NoAddress
            /\ msgs[i].to = clientTuple

\* C5, its case reached: the flag set at startup was served by a tick, after
\* the session was bound.
C5_Witness ==
    /\ fake_pinproc
    /\ IsCall(last, "mode_tick")
    /\ last.pass
    /\ Len(SentBy(sent, "client_update_all_switches")) = Len(SwitchOrder)
    /\ do_we_have_a_client

\* C16: a 'refresh' message only sets client_needs_sync: it leaves the
\* session (bound or not), the address, the switches, key_events,
\* last_loop_time and the message under construction as they were, performs
\* no device operation, sends nothing and raises nothing. A flag set while
\* the session is unbound stays set through every step taken on the unbound
\* session, the binding dispatch included; a mode_tick on the unbound session
\* sends nothing; and the mode_tick that finds the session bound and the flag
\* set runs client_update_all: it calls client_send_OSC_message once for
\* every switch and then clears the flag.
C16_RefreshOnlyMarks ==
    [][/\ (IsCall(last', "process_message") /\ IsRefresh(last'.addr))
          => /\ client_needs_sync'
             /\ UNCHANGED <<clientIP, clientTuple, OSC_client,
                            do_we_have_a_client, key_events, switches,
                            last_loop_time, OSC_message, tick>>
             /\ ops' = << >>
             /\ sent' = << >>
             /\ err' = None
       /\ (client_needs_sync /\ ~do_we_have_a_client) => client_needs_sync'
       /\ (IsCall(last', "mode_tick") /\ ~do_we_have_a_client)
          => sent' = << >>
       /\ (IsTickTest(last') /\ client_needs_sync)
          => /\ tick'.pc = "sync"
             /\ tick'.pass
             /\ tick'.todo = client_update_all_switches
       /\ (tick.pc = "sync" /\ tick'.pc # "sync")
          => (tick.todo = << >> /\ ~client_needs_sync')]_vars

\* C16, its case reached: with no flag set at startup, a 'refresh' came while
\* the session was unbound; a tick since left the flag pending and sent
\* nothing, and the session is still unbound, with no address.
C16_Witness ==
    /\ ~fake_pinproc
    /\ IsCall(last, "mode_tick")
    /\ last.run >= 1
    /\ ~do_we_have_a_client
    /\ client_needs_sync
    /\ clientTuple = NoAddress
    /\ OSC_client = NoAddress
    /\ sent = << >>

\* C20: once the session is bound it stays bound, and clientIP, clientTuple
\* and the connected OSC_client never change again, whatever message,
\* 'refresh' or tick follows and whoever sends it; every message sent from
\* then on, the reply to a message of another sender included, goes to the
\* address bound first.
C20_BoundForGood ==
    [][do_we_have_a_client
       => /\ do_we_have_a_client'
          /\ UNCHANGED <<clientIP, clientTuple, OSC_client>>
          /\ \A msgs \in {sent', tick'.sent} :
                \A i \in 1..Len(msgs) : msgs[i].to = clientTuple]_vars

\* C20, its case reached: the session bound to hostA got an LED message from
\* hostB and sent its reply to hostA, at clientPort.
C20_Witness ==
    /\ IsLEDMessage(last)
    /\ last.client_address[1] = HostB
    /\ do_we_have_a_client
    /\ clientTuple = <<HostA, clientPort>>
    /\ OSC_client = <<HostA, clientPort>>
    /\ Len(sent) = 1
    /\ sent[1].category = LED_LABEL
    /\ sent[1].to = <<HostA, clientPort>>

-----------------------------------------------------------------------------
(* The LED messages (specification SpecLED).                               *)

\* C8: every 'led' or 'LED' message produces exactly one 'led-label' reply
\* to the bound client for its target, carrying the brightness
\* int(payload[0]*255), whether the target is "+B-O" or a name.
C8_EveryLEDMessageReplies ==
    [][IsLEDMessage(last')
       => IsLEDReply(sent', TargetOf(last'),
                     (last'.data[1].num * 255) \div last'.data[1].den,
                     OSC_client')]_vars

-----------------------------------------------------------------------------
(* The two threads (specification SpecThreads).                            *)

\* C14: every state change of a switch on a bound session is reported at
\* least once: a change of switch n is followed by a mode_tick call that
\* sends a 'sw' message for n, also when the change carries the timestamp
\* the previous tick recorded. (The changes looked at are those made while
\* the clock of the model can still move on.)
C14_EveryChangeReported ==
    \A n \in SwitchNames :
        (last.op = "SwitchChange" /\ last.name = n /\ do_we_have_a_client
            /\ now < MaxTime)
            ~> (IsCall(last, "mode_tick") /\ About(sent, n) # << >>)

\* C15: every 'refresh' received on a bound session is followed by a
\* mode_tick that starts a pass of client_update_all_switches after the
\* refresh was received, also when the refresh arrives while such a pass is
\* in progress.
C15_EveryRefreshServed ==
    (IsCall(last, "process_message") /\ IsRefresh(last.addr)
        /\ do_we_have_a_client)
        ~> (IsTickTest(last) /\ tick.pass)

-----------------------------------------------------------------------------
(* The category handlers (specification SpecReceive).                      *)

\* C7: a 'sw' message for target T appends exactly one "closed" event when
\* payload[0] is 1.0, exactly one "open" event when it is 0.0, and no event
\* and no error for any other payload[0]; the event's value is T's registry
\* number when T is a registered switch, otherwise the decode of T.
C7_SwitchMessage ==
    [][IsSwitchMessage(last')
       => LET T == TargetOf(last')
              x == last'.data[1]
              value == IF T \in SwitchNames THEN SwitchNumber(T) ELSE decode(T)
          IN  /\ err' = None
              /\ x.num = x.den
                 => key_events' = Append(key_events, Event("closed", value))
              /\ x.num = 0
                 => key_events' = Append(key_events, Event("open", value))
              /\ (x.num # x.den /\ x.num # 0) => key_events' = key_events]_vars

\* C7, its case reached: "/sw/12" with payload 1.0, 12 being no registered
\* switch, appended the one closed event for the decoded number 12.
C7_Witness ==
    /\ IsSwitchMessage(last)
    /\ TargetOf(last) = N12
    /\ last.data = <<Frac(1, 1)>>
    /\ key_events # << >>
    /\ key_events[Len(key_events)] = Event("closed", 12)

IsLampMessage(call) ==
    IsMessageTo(call) /\ CategoryOf(call) = LAMP /\ call.data # << >>

\* The float of a payload number n / 2^j.
PayloadFloat(x) ==
    Float(BinFromNat(x.num), CHOOSE j \in 0..MaxDutyBits : 2 ^ j = x.den)

\* C12: a 'lamp' message for a registered lamp enables the lamp when
\* payload[0] >= 1, disables it when payload[0] = 0, and for every other
\* payload[0] schedules the lamp with the mask convertToMask returns for it;
\* each case raises no error and performs exactly that one lamp operation.
C12_LampMessage ==
    [][(IsLampMessage(last') /\ TargetOf(last') \in LampNames)
       => LET T == TargetOf(last')
              x == last'.data[1]
          IN  /\ err' = None
              /\ Len(ops') = 1
              /\ ops'[1].dev = "lamp"
              /\ ops'[1].name = T
              /\ IF x.num >= x.den THEN ops'[1].op = "enable"
                 ELSE IF x.num = 0 THEN ops'[1].op = "disable"
                 ELSE /\ ops'[1].op = "schedule"
                      /\ ops'[1].schedule = convertToMask(PayloadFloat(x))]_vars

\* The call was process_message with a path "/<category>..." whose category
\* is none of the protocol's.
IsUnknownCategoryMessage(call) ==
    /\ IsCall(call, "process_message")
    /\ Len(Split(call.addr, "/")) >= 2
    /\ CategoryOf(call) \notin {SW, LAMP, LED_LOWER, LED_UPPER, COIL, REFRESH}

\* C13: a message whose category is none of sw, lamp, led, LED, coil, refresh
\* is silently ignored, with or without a target in its path: the dispatch
\* raises no error, performs no device operation, appends no event to
\* key_events and sends no message.
C13_UnknownCategoryIgnored ==
    [][IsUnknownCategoryMessage(last')
       => /\ err' = None
          /\ ops' = << >>
          /\ key_events' = key_events
          /\ sent' = << >>]_vars

\* The address the session binds to on a message from client_address: the
\* configured clientIP if there is one, else the sender's host, with the
\* configured clientPort.
BoundAddress(ip, client_address) ==
    <<IF ip = None THEN client_address[1] ELSE ip, clientPort>>

\* C17: a message that is not 'refresh', received by an unbound session,
\* binds the session in that dispatch, to the configured clientIP if one was
\* configured and else to the sender's host, with clientPort and not the
\* sender's port; and its action is applied in the same dispatch: a coil
\* message pulses the coil, a 'sw' message with payload 1 queues its event.
C17_FirstMessageBinds ==
    [][(IsCall(last', "process_message") /\ ~IsRefresh(last'.addr)
          /\ ~do_we_have_a_client)
       => /\ do_we_have_a_client'
          /\ clientTuple' = BoundAddress(clientIP, last'.client_address)
          /\ OSC_client' = clientTuple'
          /\ clientTuple'[2] # last'.client_address[2]
          /\ (IsMessageTo(last') /\ CategoryOf(last') = COIL
                /\ TargetOf(last') \in CoilNames)
             => ops' = <<[dev |-> "coil", name |-> TargetOf(last'),
                          op |-> "pulse"]>>
          /\ (IsSwitchMessage(last') /\ last'.data[1].num = last'.data[1].den)
             => Len(key_events') = Len(key_events) + 1]_vars

\* The call was a message of category cat to a target that is no name of
\* the registry names.
IsToUnknown(call, cat, names) ==
    IsMessageTo(call) /\ CategoryOf(call) = cat /\ TargetOf(call) \notin names

\* The warning process_lamp logs for the lamp T.
LampWarning(T) == <<[dev |-> "logger", name |-> T, op |-> "warning"]>>

\* C18, as claimed: a message to a device name that is not in its registry
\* is ignored with a logged warning and no device operation when the
\* category is lamp, and raises a lookup failure when the category is sw,
\* coil, led or LED.
C18_UnknownDeviceRaises ==
    [][/\ IsToUnknown(last', LAMP, LampNames)
          => (err' = None /\ ops' = LampWarning(TargetOf(last')))
       /\ (IsToUnknown(last', SW, SwitchNames) /\ last'.data # << >>)
          => err' = "KeyError"
       /\ IsToUnknown(last', COIL, CoilNames)
          => err' = "KeyError"
       /\ (\E cat \in {LED_LOWER, LED_UPPER} :
               IsToUnknown(last', cat, LedNames)
               /\ ~StartsWith(TargetOf(last'), "+") /\ last'.data # << >>)
          => err' = "KeyError"]_vars

\* C18, amended: a message to a device name that is not in its registry is
\* ignored with a logged warning when the category is lamp, is ignored with
\* no warning and no error when it is coil, raises a lookup failure
\* (KeyError), with no reply, when it is led or LED and the name is no "+B-O"
\* address, and raises nothing when it is sw: the switch event is queued
\* with the number pinproc.decode gives the name.
C18_UnknownDevice ==
    [][/\ IsToUnknown(last', LAMP, LampNames)
          => /\ err' = None
             /\ ops' = LampWarning(TargetOf(last'))
             /\ sent' = << >>
             /\ key_events' = key_events
       /\ IsToUnknown(last', COIL, CoilNames)
          => /\ err' = None
             /\ ops' = << >>
             /\ sent' = << >>
             /\ key_events' = key_events
       /\ (\E cat \in {LED_LOWER, LED_UPPER} :
               IsToUnknown(last', cat, LedNames)
               /\ ~StartsWith(TargetOf(last'), "+") /\ last'.data # << >>)
          => /\ err' = "KeyError"
             /\ ops' = << >>
             /\ sent' = << >>
       /\ (IsToUnknown(last', SW, SwitchNames) /\ last'.data # << >>)
          => /\ err' = None
             /\ ops' = << >>
             /\ last'.data[1].num = last'.data[1].den
                => key_events' = Append(key_events,
                                        Event("closed", decode(TargetOf(last'))))
             /\ last'.data[1].num = 0
                => key_events' = Append(key_events,
                                        Event("open", decode(TargetOf(last'))))]_vars

\* C18, its case reached: "/coil/zz", zz being no coil, raised nothing,
\* logged nothing and pulsed nothing.
C18_Witness ==
    /\ IsToUnknown(last, COIL, CoilNames)
    /\ TargetOf(last) = ZZ
    /\ err = None
    /\ ops = << >>
    /\ sent = << >>

-----------------------------------------------------------------------------
(* The brightness encoder (specification SpecMask).                        *)

\* The number of 1 bits of a mask.
PopCount(schedule) == Cardinality({i \in 1..Len(schedule) : schedule[i] = 1})

\* The mask 2^n - 1: n bits, all 1.
AllOnes(n) == [i \in 1..n |-> 1]

\* n * 2^e, the integer n at the scale e
Scaled(n, e) == IF n = 0 THEN << >> ELSE BinFromNat(n) \o Zeros(e)

\* k * b, exactly: twice (k \div 2) * b, and b more for an odd k
RECURSIVE BinMul(_, _)
BinMul(k, b) ==
    IF k = 0 THEN << >>
    ELSE LET twice == ShiftLeft(BinMul(k \div 2, b))
         IN  IF k % 2 = 1 THEN BinAdd(twice, b) ELSE twice

\* The integer part of k * d, exactly.
FloorOfMultiple(k, d) == IntPart(BinMul(k, d.m), d.e)

\* The bits of k * d after the binary point.
FractionBits(k, d) ==
    LET x == Zeros(d.e) \o BinMul(k, d.m)
    IN  SubSeq(x, Len(x) - d.e + 1, Len(x))

\* Python's round(k * d). On a half Python 2 rounds away from zero and
\* Python 3 to the even neighbour.
RoundHalfUp(k, d) ==
    FloorOfMultiple(k, d)
        + (IF d.e > 0 /\ FractionBits(k, d)[1] = 1 THEN 1 ELSE 0)
RoundHalfEven(k, d) ==
    IF d.e > 0 /\ FractionBits(k, d) = <<1>> \o Zeros(d.e - 1)
    THEN FloorOfMultiple(k, d) + (FloorOfMultiple(k, d) % 2)
    ELSE RoundHalfUp(k, d)

\* The slots of a returned mask, first slot first: the loop shifts once after
\* each of its MaskBits slots, so slot i is bit MaskBits + 1 - i of the word.
Slots(schedule) == Zeros(MaskBits + 1 - Len(schedule)) \o schedule

\* The number of bits set in the first k slots.
PrefixCount(schedule, k) ==
    Cardinality({i \in 1..k : Slots(schedule)[i] = 1})

\* C9: for width 32, duty cycle 0 yields mask 0, duty cycle 1 yields the mask
\* 2^32 - 1, and for every duty cycle in [0,1] the mask fits in 32 bits.
C9_MaskEdgesAndWidth ==
    mask # << >>
    => /\ number.m = << >> => mask[1] = << >>
       /\ number.m = Scaled(1, number.e) => mask[1] = AllOnes(MaskBits)
       /\ Len(mask[1]) <= MaskBits

\* C10, as claimed: the number of set bits of the mask equals round(d*32).
C10_PopCountIsRound ==
    mask # << >>
    => PopCount(mask[1]) \in {RoundHalfUp(MaskBits, number),
                              RoundHalfEven(MaskBits, number)}

\* C10, amended: for every duty cycle d = p / 2^k in [0,1], the number of set
\* bits of the mask equals the integer part of d*32.
C10_PopCountIsFloor ==
    mask # << >>
    => PopCount(mask[1]) = FloorOfMultiple(MaskBits, number)

\* C10, its case reached: a duty cycle for which d*32 has a fractional part of
\* at least 1/2, encoded with floor(d*32) set bits.
C10_Witness ==
    /\ mask # << >>
    /\ number.e > 0
    /\ FractionBits(MaskBits, number)[1] = 1
    /\ PopCount(mask[1]) = FloorOfMultiple(MaskBits, number)
    /\ PopCount(mask[1]) > 0

\* C11: for every duty cycle d in [0,1] and every prefix length k <= 32, the
\* number of bits set in the first k slots of the mask differs from k*d by
\* strictly less than 1, and the bit of slot k is set exactly when the integer
\* part of k*d exceeds the number of bits set before it.
C11_PrefixWithinOne ==
    mask # << >>
    => \A k \in 1..MaskBits :
          LET c  == PrefixCount(mask[1], k)
              kd == BinMul(k, number.m)
          IN  /\ BinLess(kd, Scaled(c + 1, number.e))
              /\ BinLess(Scaled(c, number.e), BinAdd(kd, Scaled(1, number.e)))
              /\ Slots(mask[1])[k] = 1
                 <=> FloorOfMultiple(k, number) > PrefixCount(mask[1], k - 1)

====
